---------------------------- MODULE Spec2Model ----------------------------
(***************************************************************************)
(* A model of evals/analyze_evals.py: the extraction of ratings and        *)
(* comments from survey records, the statistics, the feedback filter and  *)
(* the run of main over the evaluation files of a directory.               *)
(*                                                                         *)
(* Python strings are TLA+ strings; TLC evaluates Len, SubSeq and \o on    *)
(* them, so substring tests, lower(), strip() and the regular expression   *)
(* of parse_course_info are computed character by character.              *)
(***************************************************************************)
EXTENDS Integers, Sequences, FiniteSets, TLC

(***************************************************************************)
(* Strings                                                                 *)
(***************************************************************************)

\* The printable ASCII characters in code-point order (the double quote, the
\* backslash and the backquote, which no string of the model holds, left out).
Ascii ==
  " !#$%&'()*+,-./0123456789:;<=>?@ABCDEFGHIJKLMNOPQRSTUVWXYZ[]^_abcdefghijklmnopqrstuvwxyz{|}~"

UpperCase == "ABCDEFGHIJKLMNOPQRSTUVWXYZ"
LowerCase == "abcdefghijklmnopqrstuvwxyz"
Digits == {"0", "1", "2", "3", "4", "5", "6", "7", "8", "9"}
\* What \s of re and str.strip() take for white space, among the ASCII characters.
WhiteSpace == {" ", "\t", "\n", "\r", "\f"}

CharAt(s, i) == SubSeq(s, i, i)

\* A function as the table of its values.
Table(f) == f @@ <<>>

\* The rank of each character of Ascii in code-point order.
OrdOf == Table([c \in {CharAt(Ascii, i) : i \in 1..Len(Ascii)} |->
                  CHOOSE i \in 1..Len(Ascii) : CharAt(Ascii, i) = c])

\* The rank of a one-character string in code-point order (the control characters
\* tab, newline, ... all come before " ").
Ord(c) == IF c \in DOMAIN OrdOf THEN OrdOf[c] ELSE 0

\* str < str : lexicographic by code point, a proper prefix first.
StrLess(a, b) ==
  \E k \in 1..(Len(b)) :
     /\ k <= Len(a) + 1
     /\ SubSeq(a, 1, k - 1) = SubSeq(b, 1, k - 1)
     /\ \/ k = Len(a) + 1
        \/ k <= Len(a) /\ Ord(CharAt(a, k)) < Ord(CharAt(b, k))

\* The lower-case letter of each upper-case letter.
LowerOf ==
  Table([c \in {CharAt(UpperCase, i) : i \in 1..26} |->
           CharAt(LowerCase, CHOOSE i \in 1..26 : CharAt(UpperCase, i) = c)])

LowerChar(c) == IF c \in DOMAIN LowerOf THEN LowerOf[c] ELSE c

\* str.lower(), by halves.
RECURSIVE Lower(_)
Lower(s) ==
  IF Len(s) = 0 THEN ""
  ELSE IF Len(s) = 1 THEN LowerChar(s)
  ELSE Lower(SubSeq(s, 1, Len(s) \div 2)) \o Lower(SubSeq(s, Len(s) \div 2 + 1, Len(s)))

\* sub in s
In(sub, s) ==
  \E i \in 1..(Len(s) - Len(sub) + 1) : SubSeq(s, i, i + Len(sub) - 1) = sub

\* str.strip()
Strip(s) ==
  IF \A i \in 1..Len(s) : CharAt(s, i) \in WhiteSpace THEN ""
  ELSE SubSeq(s,
              CHOOSE i \in 1..Len(s) :
                 /\ CharAt(s, i) \notin WhiteSpace
                 /\ \A j \in 1..(i - 1) : CharAt(s, j) \in WhiteSpace,
              CHOOSE i \in 1..Len(s) :
                 /\ CharAt(s, i) \notin WhiteSpace
                 /\ \A j \in (i + 1)..Len(s) : CharAt(s, j) \in WhiteSpace)

\* Truthiness of a str, a list or a number-free container: non-empty.
Truthy(v) == Len(v) > 0


\* A list comprehension: the function on 1..n, as the tuple of its values.
List(f) == f \o <<>>

\* d[k] of a defaultdict(list) that is only read: the empty list at a key it lacks.
Get(d, k) == IF k \in DOMAIN d THEN d[k] ELSE <<>>

\* The same with xs put before what d[k] holds.
ExtendInFront(d, k, xs) == (k :> (xs \o Get(d, k))) @@ d

\* d[k].extend(xs) on a defaultdict(list).
Extend(d, k, xs) == (k :> (Get(d, k) \o xs)) @@ d

(***************************************************************************)
(* The mapping tables                                                      *)
(***************************************************************************)

LIKERT_MAP ==
  [v \in {"Strongly Agree", "Agree", "Uncertain", "Disagree", "Strongly Disagree"} |->
     CASE v = "Strongly Agree" -> 5
       [] v = "Agree" -> 4
       [] v = "Uncertain" -> 3
       [] v = "Disagree" -> 2
       [] v = "Strongly Disagree" -> 1]

EFFECTIVENESS_MAP ==
  [v \in {"Excellent", "Very Good", "Good", "Fair", "Very Poor"} |->
     CASE v = "Excellent" -> 5
       [] v = "Very Good" -> 4
       [] v = "Good" -> 3
       [] v = "Fair" -> 2
       [] v = "Very Poor" -> 1]

\* The items of QUESTION_LABELS, <<q_text, label>>, in the order of the dict.
QUESTION_LABELS ==
  << <<"Learning outcomes for the course were clearly stated", "Outcomes Stated">>,
     <<"The learning outcomes were effectively addressed in the course", "Outcomes Addressed">>,
     <<"There were constructive interactions between the instructor and the students", "Interactions">>,
     <<"The instructor was accessible for discussions about the course", "Accessible">>,
     <<"I received feedback that improved my learning in this course", "Feedback">>,
     <<"The course challenged me to do my best work", "Challenged">>,
     <<"My experience in the course increased my interest in the subject matter", "Interest">> >>

\* QUESTION_LABELS.values()
Labels == {QUESTION_LABELS[q][2] : q \in 1..Len(QUESTION_LABELS)}

(***************************************************************************)
(* parse_course_info                                                       *)
(***************************************************************************)

\* The end of the longest run of characters of cs that starts at i (i - 1: none).
RunEnd(f, i, cs) ==
  CHOOSE j \in (i - 1)..Len(f) :
     /\ \A k \in i..j : CharAt(f, k) \in cs
     /\ j = Len(f) \/ CharAt(f, j + 1) \notin cs

NoMatch == <<>>

\* (CMSI\s+\d+)\s+(\d+) matched at c: <<course, section>>, or NoMatch. Each of
\* \s+ and \d+ is greedy and is followed by a character of the other class, so
\* each takes the longest run and no backtracking finds another match.
CourseAt(f, c) ==
  LET w1 == RunEnd(f, c + 4, WhiteSpace)
      d1 == RunEnd(f, w1 + 1, Digits)
      w2 == RunEnd(f, d1 + 1, WhiteSpace)
      d2 == RunEnd(f, w2 + 1, Digits)
  IN  IF /\ c + 3 <= Len(f)
         /\ SubSeq(f, c, c + 3) = "CMSI"
         /\ w1 >= c + 4
         /\ d1 >= w1 + 1
         /\ w2 >= d1 + 1
         /\ d2 >= w2 + 1
      THEN <<SubSeq(f, c, d1), SubSeq(f, w2 + 1, d2)>>
      ELSE NoMatch

\* The pattern matched with (Spring|Fall|Summer) at s: the four groups, or
\* NoMatch. .*? takes the fewest characters, none of them a newline.
MatchAt(f, s) ==
  LET sems == {w \in {"Spring", "Fall", "Summer"} :
                 s + Len(w) - 1 <= Len(f) /\ SubSeq(f, s, s + Len(w) - 1) = w}
  IN  IF sems = {} THEN NoMatch
      ELSE
        LET sem == CHOOSE w \in sems : TRUE
            w0 == RunEnd(f, s + Len(sem), WhiteSpace)
            y == w0 + 1
            cs == {c \in (y + 4)..Len(f) :
                     /\ CourseAt(f, c) # NoMatch
                     /\ \A k \in (y + 4)..(c - 1) : CharAt(f, k) # "\n"}
        IN  IF /\ w0 >= s + Len(sem)
               /\ y + 3 <= Len(f)
               /\ \A k \in y..(y + 3) : CharAt(f, k) \in Digits
               /\ cs # {}
            THEN LET c == CHOOSE c \in cs : \A c2 \in cs : c <= c2
                 IN  <<sem, SubSeq(f, y, y + 3), CourseAt(f, c)[1], CourseAt(f, c)[2]>>
            ELSE NoMatch

\* re.search: the match at the leftmost position that has one.
Search(f) ==
  LET ss == {s \in 1..Len(f) : MatchAt(f, s) # NoMatch}
  IN  IF ss = {} THEN NoMatch
      ELSE MatchAt(f, CHOOSE s \in ss : \A s2 \in ss : s <= s2)

\* The same with empty strings where no match is found.
parse_course_info_blank(filename) ==
  LET match == Search(filename)
  IN  IF match # NoMatch
      THEN <<match[1] \o " " \o match[2], match[3], match[4]>>
      ELSE <<"", "", "">>

parse_course_info(filename) ==
  LET match == Search(filename)
  IN  IF match # NoMatch
      THEN <<match[1] \o " " \o match[2], match[3], match[4]>>
      ELSE <<"Unknown", "Unknown", "00">>

(***************************************************************************)
(* extract_ratings, extract_comments                                       *)
(*                                                                         *)
(* A record (one row of csv.DictReader) is the sequence of its items,      *)
(* <<col, value>>, in the order of the header; responses is a sequence of  *)
(* records. Both functions visit the cells in the same order, record by    *)
(* record and column by column, and only append to lists, so each list     *)
(* they build is the cells that pass its test, in that order.              *)
(***************************************************************************)

\* for resp in responses: for col, value in resp.items(): the cells visited.
RECURSIVE Cells(_)
Cells(responses) ==
  IF responses = <<>> THEN <<>> ELSE Head(responses) \o Cells(Tail(responses))

\* The same test with no exclusion of the "_Comments" columns.
LikertTestAnyColumn(q_text, col, value) ==
  In(q_text, col) /\ value \in DOMAIN LIKERT_MAP

\* The condition under which a cell is appended to ratings[label].
LikertTest(q_text, col, value) ==
  In(q_text, col) /\ ~In("_Comments", col) /\ value \in DOMAIN LIKERT_MAP

\* The condition under which a cell is appended to effectiveness_ratings.
EffectivenessTest(col, value) ==
  /\ In("overall effectiveness", Lower(col)) /\ ~In("_Comments", col)
  /\ value \in DOMAIN EFFECTIVENESS_MAP

\* What the loops append to ratings[QUESTION_LABELS[q][2]].
RatingsOf(cells, q) ==
  LET hit(cell) == LikertTest(QUESTION_LABELS[q][1], cell[1], cell[2])
      hits == SelectSeq(cells, hit)
  IN  List([i \in 1..Len(hits) |-> LIKERT_MAP[hits[i][2]]])

\* What the loops append to effectiveness_ratings.
EffectivenessOf(cells) ==
  LET hit(cell) == EffectivenessTest(cell[1], cell[2])
      hits == SelectSeq(cells, hit)
  IN  List([i \in 1..Len(hits) |-> EFFECTIVENESS_MAP[hits[i][2]]])

\* ratings after the loops, a defaultdict(list): its keys are the labels
\* something was appended to (here from question q on).
RECURSIVE RatingsFrom(_, _)
RatingsFrom(cells, q) ==
  IF q > Len(QUESTION_LABELS) THEN <<>>
  ELSE IF RatingsOf(cells, q) = <<>> THEN RatingsFrom(cells, q + 1)
  ELSE Extend(RatingsFrom(cells, q + 1), QUESTION_LABELS[q][2], RatingsOf(cells, q))

\* <<ratings, effectiveness_ratings>>
extract_ratings(responses) ==
  <<RatingsFrom(Cells(responses), 1), EffectivenessOf(Cells(responses))>>

\* The test of the if of extract_comments.
BeneficialTest(col, value) ==
  In("most beneficial", Lower(col)) /\ Truthy(value) /\ value # "D/A"

\* The test of its elif, reached when the if fails.
ImprovementTest(col, value) ==
  /\ ~BeneficialTest(col, value)
  /\ In("more effective", Lower(col)) /\ Truthy(value) /\ value # "D/A"

\* <<beneficial_comments, improvement_comments>>
extract_comments(responses) ==
  LET cells == Cells(responses)
      ben(cell) == BeneficialTest(cell[1], cell[2])
      imp(cell) == ImprovementTest(cell[1], cell[2])
      bens == SelectSeq(cells, ben)
      imps == SelectSeq(cells, imp)
  IN  << List([i \in 1..Len(bens) |-> Strip(bens[i][2])]),
         List([i \in 1..Len(imps) |-> Strip(imps[i][2])]) >>

(***************************************************************************)
(* calculate_stats                                                         *)
(*                                                                         *)
(* statistics.mean and statistics.variance compute exactly, in fractions;  *)
(* a number is the pair <<numerator, denominator>> (denominator > 0) and   *)
(* the standard deviation is kept as the variance it is the square root    *)
(* of, which orders and equates as its root does.                          *)
(***************************************************************************)

None == <<>>

RatLess(a, b) == a[1] * b[2] < b[1] * a[2]
RatEq(a, b) == a[1] * b[2] = b[1] * a[2]

RECURSIVE Sum(_)
Sum(values) == IF values = <<>> THEN 0 ELSE Head(values) + Sum(Tail(values))

RECURSIVE SumSq(_)
SumSq(values) ==
  IF values = <<>> THEN 0 ELSE Head(values) * Head(values) + SumSq(Tail(values))

\* statistics.mean
Mean(values) == <<Sum(values), Len(values)>>

\* statistics.stdev, n > 1: the root of sum((x - mean)^2) / (n - 1).
Stdev(values) ==
  LET n == Len(values)
  IN  <<n * SumSq(values) - Sum(values) * Sum(values), n * (n - 1)>>

calculate_stats(values) ==
  IF ~Truthy(values) THEN <<None, None>>
  ELSE <<Mean(values), IF Len(values) > 1 THEN Stdev(values) ELSE <<0, 1>> >>

(***************************************************************************)
(* filter_good_feedback                                                    *)
(***************************************************************************)

positive_keywords ==
  <<"great", "excellent", "helpful", "enjoyed", "liked", "appreciated",
    "well", "organized", "clear", "kind", "willing", "best", "really",
    "engaging", "informative", "thorough", "fair", "supportive">>

\* sum(1 for kw in positive_keywords if kw in lower_comment)
positive_count(lower_comment) ==
  Cardinality({k \in 1..Len(positive_keywords) : In(positive_keywords[k], lower_comment)})

\* The same body with len(comment) > min_length.
FeedbackStepLonger(comment, min_length, good_comments) ==
  IF Len(comment) > min_length
  THEN IF positive_count(Lower(comment)) >= 2
       THEN Append(good_comments, comment)
       ELSE good_comments
  ELSE good_comments

\* The same body with len(comment) <= min_length.
FeedbackStepShorter(comment, min_length, good_comments) ==
  IF Len(comment) <= min_length
  THEN IF positive_count(Lower(comment)) >= 2
       THEN Append(good_comments, comment)
       ELSE good_comments
  ELSE good_comments

\* The body of the loop of filter_good_feedback for one comment.
FeedbackStep(comment, min_length, good_comments) ==
  IF Len(comment) >= min_length
  THEN IF positive_count(Lower(comment)) >= 2
       THEN Append(good_comments, comment)
       ELSE good_comments
  ELSE good_comments

RECURSIVE FeedbackLoop(_, _, _, _)
FeedbackLoop(comments, i, min_length, good_comments) ==
  IF i > Len(comments) THEN good_comments
  ELSE FeedbackLoop(comments, i + 1, min_length,
                    FeedbackStep(comments[i], min_length, good_comments))

filter_good_feedback(comments, min_length) == FeedbackLoop(comments, 1, min_length, <<>>)

\* min_length=50
DefaultMinLength == 50

(***************************************************************************)
(* main: the files and their contents                                      *)
(***************************************************************************)

\* The most rows a file holds.
MaxRows == 2

\* The names of the files: one with no semester before its year, one as the
\* registrar exports them, one of another year.
FileNames ==
  {"2025 evals export CMSI 186.csv",
   "Coleman Jared Fall 2025 Computer Programming CMSI 186 02.csv",
   "Coleman Jared Spring 2024 Algorithms CMSI 282 01.csv"}

\* The directories main may run in: with no file of 2025, with one, with two.
Directories ==
  {{},
   {"Coleman Jared Spring 2024 Algorithms CMSI 282 01.csv"},
   {"Coleman Jared Fall 2025 Computer Programming CMSI 186 02.csv"},
   {"2025 evals export CMSI 186.csv",
    "Coleman Jared Spring 2024 Algorithms CMSI 282 01.csv"},
   FileNames}

Q(k) == QUESTION_LABELS[k][1]

LongSuggestion ==
  LET seg == "Please post the lecture notes before each class meeting. "
  IN  seg \o seg \o seg \o seg \o seg \o seg

\* The sheets a file may hold: the columns of its header in order, each with
\* the answers a respondent may give in it.
RatingSheet ==
  << <<Q(7) \o ".", {"Disagree"}>>,
     <<Q(7) \o "._Comments", {"Agree"}>>,
     <<"Overall Effectiveness of the Instructor", {"Fair", "Agree"}>>,
     <<"Overall Effectiveness of the Instructor_Comments", {"Good"}>> >>

BenefitSheet ==
  << <<"What aspects of this course were Most Beneficial to you?",
       {"   ", "  The labs were GREAT and the instructor was really Helpful.  "}>>,
     <<"Which of the labs were most beneficial?", {"D/A"}>>,
     <<"What would make the labs more effective?", {""}>> >>

ImprovementSheet ==
  << <<"What would make the course more effective?",
       {"More labs", "More worked examples in class would help."}>>,
     <<"What would make the instructor More Effective?", {LongSuggestion}>> >>

FullSheet ==
  << <<Q(1) \o ".", {"Strongly Agree"}>>,
     <<Q(2) \o ".", {"Strongly Agree", "Agree"}>>,
     <<Q(3) \o ".", {"Agree"}>>,
     <<Q(4) \o ".", {"Uncertain"}>>,
     <<Q(5) \o ".", {"Disagree"}>>,
     <<Q(6) \o ".", {"Strongly Disagree"}>>,
     <<Q(7) \o ".", {"Good"}>>,
     <<"Overall Effectiveness of the Instructor", {""}>> >>

Sheets == {RatingSheet, BenefitSheet, ImprovementSheet, FullSheet}

\* The rows of a sheet: one answer under each of its first c columns.
RECURSIVE RowsOf(_, _)
RowsOf(sheet, c) ==
  IF c = 0 THEN {<<>>}
  ELSE {Append(row, <<sheet[c][1], v>>) : row \in RowsOf(sheet, c - 1), v \in sheet[c][2]}

\* What load_eval_file may return: up to MaxRows rows of one sheet.
Contents ==
  UNION {UNION {[1..n -> RowsOf(sheet, Len(sheet))] : n \in 0..MaxRows} : sheet \in Sheets}

\* What the loop body has after load_eval_file, extract_ratings and
\* extract_comments, for a file that holds content.
Extraction(content) ==
  [responses |-> content,
   ratings |-> extract_ratings(content)[1],
   effectiveness |-> extract_ratings(content)[2],
   beneficial |-> extract_comments(content)[1],
   improvement |-> extract_comments(content)[2]]

Loaded == {Extraction(content) : content \in Contents}

\* evals_dir.glob("*2025*.csv")
Glob(names) ==
  {f \in names : /\ Len(f) >= 8
                 /\ SubSeq(f, Len(f) - 3, Len(f)) = ".csv"
                 /\ In("2025", SubSeq(f, 1, Len(f) - 4))}

\* sorted(eval_files): the paths of one directory, ordered by name.
RECURSIVE Sorted(_)
Sorted(names) ==
  IF names = {} THEN <<>>
  ELSE LET least == CHOOSE f \in names : \A g \in names : f = g \/ StrLess(f, g)
       IN  <<least>> \o Sorted(names \ {least})

(***************************************************************************)
(* main: the ranking and the report                                        *)
(***************************************************************************)

\* tuple < tuple for the tuples (mean, std, label, n) of sorted_ratings: the
\* first components that differ decide.
TupleLess(a, b) ==
  IF ~RatEq(a[1], b[1]) THEN RatLess(a[1], b[1])
  ELSE IF ~RatEq(a[2], b[2]) THEN RatLess(a[2], b[2])
  ELSE IF a[3] # b[3] THEN StrLess(a[3], b[3])
  ELSE a[4] < b[4]

\* Whether x goes before y in list.sort().
BeforeAscending(x, y) == TupleLess(x, y)

\* Whether x goes before y in list.sort(reverse=True).
Before(x, y) == TupleLess(y, x)

\* list.sort(reverse=True): the tuples are pairwise different (their labels
\* are), so the order is the only one that descends.
SortDescending(tuples) ==
  LET n == Len(tuples)
      rank(i) == Cardinality({j \in 1..n : Before(tuples[j], tuples[i])})
  IN  List([p \in 1..n |-> tuples[CHOOSE i \in 1..n : rank(i) = p - 1]])

\* The guard of every statistic line: if values / if label in d and d[label].
HasData(values) == Truthy(values)

\* The loop that fills sorted_ratings from all_ratings, before the sort.
RatingTuples(ratings) ==
  LET hit(item) == HasData(Get(ratings, item[2]))
      items == SelectSeq(QUESTION_LABELS, hit)
  IN  List([i \in 1..Len(items) |->
              LET label == items[i][2]
                  stats == calculate_stats(ratings[label])
              IN  <<stats[1], stats[2], label, Len(ratings[label])>>])

\* seq[-(k + 1):]
LastKAndOne(seq, k) == SubSeq(seq, IF Len(seq) < k + 1 THEN 1 ELSE Len(seq) - k, Len(seq))

\* seq[:k] and seq[-k:]
FirstK(seq, k) == SubSeq(seq, 1, IF Len(seq) < k THEN Len(seq) ELSE k)
LastK(seq, k) == SubSeq(seq, IF Len(seq) < k THEN 1 ELSE Len(seq) - k + 1, Len(seq))

\* comment[:k] + "..." when the comment is longer than k.
Truncate(comment, k) ==
  IF Len(comment) > k THEN SubSeq(comment, 1, k) \o "..." ELSE comment

\* The five replace calls of the LaTeX clean-up: each of & % $ # _ gets a
\* backslash before it, and none of the calls sees what another wrote.
RECURSIVE Escape(_)
Escape(s) ==
  IF Len(s) = 0 THEN ""
  ELSE IF Len(s) = 1 THEN (IF s \in {"&", "%", "$", "#", "_"} THEN "\\" \o s ELSE s)
  ELSE Escape(SubSeq(s, 1, Len(s) \div 2)) \o Escape(SubSeq(s, Len(s) \div 2 + 1, Len(s)))

\* [k for k, v in QUESTION_LABELS.items() if v == label][0]
FullText(label) ==
  QUESTION_LABELS[CHOOSE q \in 1..Len(QUESTION_LABELS) :
                     /\ QUESTION_LABELS[q][2] = label
                     /\ \A p \in 1..(q - 1) : QUESTION_LABELS[p][2] # label][1]

\* The same line printed with no guard.
EffectivenessLinesUnguarded(effectiveness) ==
  <<[kind |-> "effectiveness",
     mean |-> calculate_stats(effectiveness)[1],
     std |-> calculate_stats(effectiveness)[2]]>>

\* The "Overall Effectiveness" line of a file, printed under its guard.
EffectivenessLines(effectiveness) ==
  IF HasData(effectiveness)
  THEN <<[kind |-> "effectiveness",
          mean |-> calculate_stats(effectiveness)[1],
          std |-> calculate_stats(effectiveness)[2]]>>
  ELSE <<>>

\* The "Question Ratings" lines of a file, in the order of QUESTION_LABELS.
QuestionLines(ratings) ==
  LET hit(item) == HasData(Get(ratings, item[2]))
      items == SelectSeq(QUESTION_LABELS, hit)
  IN  List([i \in 1..Len(items) |->
              LET values == Get(ratings, items[i][2])
              IN  [kind |-> "question", label |-> items[i][2],
                   mean |-> calculate_stats(values)[1],
                   std |-> calculate_stats(values)[2],
                   n |-> Len(values)]])

\* The loop of all_ratings[label].extend(ratings[label]) over the labels the
\* file has data for, from question q on: all_ratings after it.
RECURSIVE ExtendAll(_, _, _)
ExtendAll(all, ratings, q) ==
  IF q > Len(QUESTION_LABELS) THEN all
  ELSE IF HasData(Get(ratings, QUESTION_LABELS[q][2]))
       THEN Extend(ExtendAll(all, ratings, q + 1), QUESTION_LABELS[q][2],
                   ratings[QUESTION_LABELS[q][2]])
       ELSE ExtendAll(all, ratings, q + 1)

\* The number of improvement suggestions the report samples.
SampleSize == 5

\* The condition that lets every sampled suggestion through.
SuggestionTestAny(comment) == TRUE

\* The condition under which a sampled suggestion is printed.
SuggestionTest(comment) == Truthy(comment) /\ Len(comment) > 10

\* The lines of the "IMPROVEMENT SUGGESTIONS (Sample)" section.
SuggestionLines(improvements) ==
  LET sample == FirstK(improvements, SampleSize)
      kept == {i \in 1..Len(sample) : SuggestionTest(sample[i])}
      ith(p) == CHOOSE i \in kept : Cardinality({j \in kept : j < i}) = p - 1
  IN  List([p \in 1..Cardinality(kept) |->
              [kind |-> "improvement", i |-> ith(p),
               text |-> Truncate(sample[ith(p)], 300)]])

(***************************************************************************)
(* main: the run                                                           *)
(***************************************************************************)

VARIABLES
  directory,         \* the names of the files beside the script
  pc,                \* where main is
  eval_files,        \* the files glob found
  processed,         \* the values the loop variable filepath has taken
  responses, ratings, effectiveness, beneficial, improvement,
                     \* the locals of the loop body, as the last file left them
  all_ratings, all_effectiveness, all_beneficial, all_improvement,
  course_summaries,
  sorted_ratings, good_feedback,
  out,               \* what was printed: one record for each line that carries data
  comments, calls    \* filter_good_feedback called on its own: its argument, and
                     \* the min_length and the result of each call

mainVars ==
  <<directory, pc, eval_files, processed, responses, ratings, effectiveness,
    beneficial, improvement, all_ratings, all_effectiveness, all_beneficial,
    all_improvement, course_summaries, sorted_ratings, good_feedback, out>>

filterVars == <<comments, calls>>

vars == <<mainVars, filterVars>>

\* main before its first statement.
MainInit ==
  /\ pc = "start"
  /\ eval_files = {}
  /\ processed = <<>>
  /\ responses = <<>>
  /\ ratings = <<>>
  /\ effectiveness = <<>>
  /\ beneficial = <<>>
  /\ improvement = <<>>
  /\ all_ratings = <<>>
  /\ all_effectiveness = <<>>
  /\ all_beneficial = <<>>
  /\ all_improvement = <<>>
  /\ course_summaries = <<>>
  /\ sorted_ratings = <<>>
  /\ good_feedback = <<>>
  /\ out = <<>>

Init ==
  /\ directory \in Directories
  /\ MainInit
  /\ comments = <<>>
  /\ calls = <<>>

\* The glob, the "nothing to do" exit and the initialisation of the totals.
Discover ==
  /\ pc = "start"
  /\ eval_files' = Glob(directory)
  /\ IF eval_files' = {}
     THEN /\ out' = <<[kind |-> "no_files"]>>
          /\ pc' = "done"
     ELSE /\ out' = <<[kind |-> "title"]>>
          /\ pc' = "loop"
  /\ UNCHANGED <<directory, processed, responses, ratings, effectiveness, beneficial,
                 improvement, all_ratings, all_effectiveness, all_beneficial,
                 all_improvement, course_summaries, sorted_ratings, good_feedback>>
  /\ UNCHANGED filterVars

\* One pass of the loop over sorted(eval_files); content is what the file holds.
ProcessFile ==
  /\ pc = "loop"
  /\ \E filepath \in {Sorted(eval_files)[Len(processed) + 1]} :
     \E info \in {parse_course_info(filepath)} :
     \E file \in Loaded :
       /\ processed' = Append(processed, filepath)
       /\ responses' = file.responses
       /\ ratings' = file.ratings
       /\ effectiveness' = file.effectiveness
       /\ beneficial' = file.beneficial
       /\ improvement' = file.improvement
       /\ out' = out \o <<[kind |-> "course", course |-> info[2],
                           section |-> info[3], semester |-> info[1]],
                          [kind |-> "responses", n |-> Len(file.responses)]>>
                     \o EffectivenessLines(file.effectiveness)
                     \o QuestionLines(file.ratings)
       /\ all_effectiveness' =
            IF HasData(file.effectiveness) THEN all_effectiveness \o file.effectiveness
            ELSE all_effectiveness
       /\ all_ratings' = ExtendAll(all_ratings, file.ratings, 1)
       /\ course_summaries' =
            Append(course_summaries,
                   [semester |-> info[1], course |-> info[2], section |-> info[3],
                    n_responses |-> Len(file.responses),
                    effectiveness |-> file.effectiveness, ratings |-> file.ratings,
                    beneficial |-> file.beneficial, improvement |-> file.improvement])
       /\ all_beneficial' = all_beneficial \o file.beneficial
       /\ all_improvement' = all_improvement \o file.improvement
       /\ pc' = IF Len(processed) + 1 = Cardinality(eval_files) THEN "aggregate" ELSE "loop"
  /\ UNCHANGED <<directory, eval_files, sorted_ratings, good_feedback>>
  /\ UNCHANGED filterVars

\* "AGGREGATE STATISTICS": the effectiveness line, the ranked list, its first
\* three and its last three.
AggregateStatistics ==
  /\ pc = "aggregate"
  /\ sorted_ratings' = SortDescending(RatingTuples(all_ratings))
  /\ LET ranked == sorted_ratings'
         top == FirstK(ranked, 3)
         growth == LastK(ranked, 3)
     IN  out' = out
           \o (IF HasData(all_effectiveness)
               THEN <<[kind |-> "agg_effectiveness",
                       mean |-> calculate_stats(all_effectiveness)[1],
                       std |-> calculate_stats(all_effectiveness)[2],
                       n |-> Len(all_effectiveness)]>>
               ELSE <<>>)
           \o [i \in 1..Len(ranked) |->
                 [kind |-> "agg_question", label |-> ranked[i][3], mean |-> ranked[i][1],
                  std |-> ranked[i][2], n |-> ranked[i][4]]]
           \o [i \in 1..Len(top) |->
                 [kind |-> "top", i |-> i, label |-> top[i][3], mean |-> top[i][1],
                  std |-> top[i][2]]]
           \o [i \in 1..Len(growth) |->
                 [kind |-> "growth", label |-> growth[i][3], mean |-> growth[i][1],
                  std |-> growth[i][2]]]
  /\ pc' = "feedback"
  /\ UNCHANGED <<directory, eval_files, processed, responses, ratings, effectiveness,
                 beneficial, improvement, all_ratings, all_effectiveness, all_beneficial,
                 all_improvement, course_summaries, good_feedback>>
  /\ UNCHANGED filterVars

\* "SELECTED POSITIVE FEEDBACK EXAMPLES"
PositiveFeedback ==
  /\ pc = "feedback"
  /\ good_feedback' = filter_good_feedback(all_beneficial, DefaultMinLength)
  /\ LET shown == FirstK(good_feedback', 10)
     IN  out' = out \o [i \in 1..Len(shown) |->
                          [kind |-> "positive", i |-> i, text |-> Truncate(shown[i], 500)]]
  /\ pc' = "improvement"
  /\ UNCHANGED <<directory, eval_files, processed, responses, ratings, effectiveness,
                 beneficial, improvement, all_ratings, all_effectiveness, all_beneficial,
                 all_improvement, course_summaries, sorted_ratings>>
  /\ UNCHANGED filterVars

\* "IMPROVEMENT SUGGESTIONS (Sample)"
ImprovementSuggestions ==
  /\ pc = "improvement"
  /\ out' = out \o SuggestionLines(all_improvement)
  /\ pc' = "latex"
  /\ UNCHANGED <<directory, eval_files, processed, responses, ratings, effectiveness,
                 beneficial, improvement, all_ratings, all_effectiveness, all_beneficial,
                 all_improvement, course_summaries, sorted_ratings, good_feedback>>
  /\ UNCHANGED filterVars

\* "LATEX-READY OUTPUT FOR FSR"
LatexOutput ==
  /\ pc = "latex"
  /\ LET top == FirstK(sorted_ratings, 3)
         shown == FirstK(good_feedback, 3)
     IN  out' = out
           \o [i \in 1..Len(top) |->
                 [kind |-> "latex_top", text |-> FullText(top[i][3]), mean |-> top[i][1],
                  std |-> top[i][2]]]
           \o [i \in 1..Len(shown) |->
                 [kind |-> "latex_feedback", text |-> Truncate(Escape(shown[i]), 200)]]
  /\ pc' = "done"
  /\ UNCHANGED <<directory, eval_files, processed, responses, ratings, effectiveness,
                 beneficial, improvement, all_ratings, all_effectiveness, all_beneficial,
                 all_improvement, course_summaries, sorted_ratings, good_feedback>>
  /\ UNCHANGED filterVars

Next ==
  \/ Discover
  \/ ProcessFile
  \/ AggregateStatistics
  \/ PositiveFeedback
  \/ ImprovementSuggestions
  \/ LatexOutput

Spec == Init /\ [][Next]_vars


(***************************************************************************)
(* filter_good_feedback called on its own                                  *)
(***************************************************************************)

\* The most comments in the argument, and the most calls on one argument.
MaxComments == 2
MaxCalls == 2

\* Comments of 49, 50, 55 and 58 characters: the first two and the last hold
\* several keywords, the last in capitals; the third holds one keyword thrice.
CommentPool ==
  {"Great labs, really clear and helpful. Enjoyed it!",
   "Great labs, really clear and helpful. Enjoyed it!!",
   "The projects were great, great, great fun to do in lab.",
   "The labs were GREAT and the instructor was really Helpful."}

\* The values of min_length a call is made with.
Thresholds == {0, DefaultMinLength - 1, DefaultMinLength, DefaultMinLength + 1, 60}

FilterInit ==
  /\ directory = {}
  /\ MainInit
  /\ comments \in UNION {[1..n -> CommentPool] : n \in 0..MaxComments}
  /\ calls = <<>>

\* One call filter_good_feedback(comments, min_length).
CallFilter ==
  /\ Len(calls) < MaxCalls
  /\ \E min_length \in Thresholds :
       calls' = Append(calls, [min_length |-> min_length,
                               good |-> filter_good_feedback(comments, min_length)])
  /\ UNCHANGED comments
  /\ UNCHANGED mainVars

FilterNext == CallFilter

FilterSpec == FilterInit /\ [][FilterNext]_vars

(***************************************************************************)
(* Properties                                                              *)
(***************************************************************************)

\* The cells of the file the loop body last read, in the order of the file.
LastCells == Cells(responses)

\* The loop body has run at least once.
FileRead == Len(processed) > 0

\* C1 (as the specification states it): in the file last read, a cell of a
\* "most beneficial" column is collected into the benefit sequence if and only
\* if its trimmed value is non-empty and is not "D/A", likewise "more
\* effective" and the improvement sequence; no element of either sequence is
\* the empty string or "D/A".
C1_CollectedIffTrimmedAnswer ==
  FileRead =>
    LET answered(v) == Strip(v) # "" /\ Strip(v) # "D/A"
        ben(cell) == In("most beneficial", Lower(cell[1])) /\ answered(cell[2])
        imp(cell) == In("more effective", Lower(cell[1])) /\ answered(cell[2])
    IN  /\ Len(beneficial) = Len(SelectSeq(LastCells, ben))
        /\ \A i \in 1..Len(beneficial) : beneficial[i] = Strip(SelectSeq(LastCells, ben)[i][2])
        /\ Len(improvement) = Len(SelectSeq(LastCells, imp))
        /\ \A i \in 1..Len(improvement) : improvement[i] = Strip(SelectSeq(LastCells, imp)[i][2])
        /\ \A i \in 1..Len(beneficial) : beneficial[i] \notin {"", "D/A"}
        /\ \A i \in 1..Len(improvement) : improvement[i] \notin {"", "D/A"}

\* The answers of the two vocabularies.
LikertVocabulary ==
  {"Strongly Agree", "Agree", "Uncertain", "Disagree", "Strongly Disagree"}
EffectivenessVocabulary == {"Excellent", "Very Good", "Good", "Fair", "Very Poor"}

\* The names of the columns the files have.
Columns == UNION {{sheet[c][1] : c \in 1..Len(sheet)} : sheet \in Sheets}

\* For each column, the questions whose text its name contains, none when the
\* name contains "_Comments".
QuestionsAsked ==
  Table([col \in Columns |->
           {q \in 1..Len(QUESTION_LABELS) :
              In(QUESTION_LABELS[q][1], col) /\ ~In("_Comments", col)}])

\* The columns named "overall effectiveness", in any case, without "_Comments".
EffectivenessColumns ==
  {col \in Columns : In("overall effectiveness", Lower(col)) /\ ~In("_Comments", col)}

\* C2: in the file last read, the series of each question is, cell for cell
\* and in order, LIKERT_MAP of the answers of the Likert vocabulary found in
\* the columns that contain the question's text and not "_Comments"; the
\* effectiveness series is EFFECTIVENESS_MAP of the answers of the
\* effectiveness vocabulary found in the "overall effectiveness" columns
\* without "_Comments"; every value lies in 1..5, so no unmapped or blank
\* answer and no answer of the other vocabulary contributes one.
C2_SeriesFromOwnVocabulary ==
  FileRead =>
    /\ \A q \in 1..Len(QUESTION_LABELS) :
         LET series == Get(ratings, QUESTION_LABELS[q][2])
             own(cell) == q \in QuestionsAsked[cell[1]] /\ cell[2] \in LikertVocabulary
         IN  /\ Len(series) = Len(SelectSeq(LastCells, own))
             /\ \A i \in 1..Len(series) :
                  /\ series[i] = LIKERT_MAP[SelectSeq(LastCells, own)[i][2]]
                  /\ series[i] \in 1..5
    /\ DOMAIN ratings \subseteq Labels
    /\ LET own(cell) == /\ cell[1] \in EffectivenessColumns
                        /\ cell[2] \in EffectivenessVocabulary
       IN  /\ Len(effectiveness) = Len(SelectSeq(LastCells, own))
           /\ \A i \in 1..Len(effectiveness) :
                /\ effectiveness[i] = EFFECTIVENESS_MAP[SelectSeq(LastCells, own)[i][2]]
                /\ effectiveness[i] \in 1..5

\* A second file was read that holds, for one question, Likert answers and a
\* Likert answer under "_Comments", and in the effectiveness column a Likert
\* answer beside an effectiveness answer.
C2_Witness ==
  /\ Len(processed) = 2
  /\ Get(ratings, "Interest") = <<2, 2>>
  /\ effectiveness = <<2>>
  /\ Len(responses) = 2
  /\ \E r \in 1..2 : \E c \in 1..Len(responses[r]) :
       In("Overall Effectiveness", responses[r][c][1]) /\ responses[r][c][2] = "Agree"
  /\ \E c \in 1..Len(responses[1]) :
       In("_Comments", responses[1][c][1]) /\ responses[1][c][2] \in LikertVocabulary

\* main is past the loop over the files, with files to report on.
LoopDone == pc \in {"aggregate", "feedback", "improvement", "latex", "done"} /\ eval_files # {}

\* main is past the ranking.
Ranked == pc \in {"feedback", "improvement", "latex", "done"} /\ eval_files # {}

\* The lists of a sequence of lists, one after the other.
RECURSIVE Concat(_)
Concat(lists) == IF lists = <<>> THEN <<>> ELSE Head(lists) \o Concat(Tail(lists))

\* The lengths of a sequence of lists, added up.
RECURSIVE TotalLen(_)
TotalLen(lists) == IF lists = <<>> THEN 0 ELSE Len(Head(lists)) + TotalLen(Tail(lists))

\* The lines of one kind in what was printed, in order.
LinesOf(kind) == LET is(line) == line.kind = kind IN SelectSeq(out, is)

\* C3: the files are processed in the sorted order of their names, and once
\* all are processed each aggregate series (per label, effectiveness) and each
\* aggregate comment sequence (benefit, improvement) is the per-file ones put
\* end to end in that order, so its length is the sum of their lengths.
C3_AggregateIsConcatenation ==
  LET n == Len(course_summaries)
      perFile(label) == [i \in 1..n |-> Get(course_summaries[i].ratings, label)]
      eff == [i \in 1..n |-> course_summaries[i].effectiveness]
      ben == [i \in 1..n |-> course_summaries[i].beneficial]
      imp == [i \in 1..n |-> course_summaries[i].improvement]
  IN  /\ n = Len(processed)
      /\ \A i \in 1..n : \A j \in (i + 1)..n : StrLess(processed[i], processed[j])
      /\ {processed[i] : i \in 1..n} \subseteq eval_files
      /\ FileRead =>
           /\ course_summaries[n].ratings = ratings
           /\ course_summaries[n].effectiveness = effectiveness
           /\ course_summaries[n].beneficial = beneficial
           /\ course_summaries[n].improvement = improvement
      /\ LoopDone =>
           /\ {processed[i] : i \in 1..n} = eval_files
           /\ \A label \in Labels :
                /\ Get(all_ratings, label) = Concat(perFile(label))
                /\ Len(Get(all_ratings, label)) = TotalLen(perFile(label))
           /\ DOMAIN all_ratings \subseteq Labels
           /\ all_effectiveness = Concat(eff)
           /\ Len(all_effectiveness) = TotalLen(eff)
           /\ all_beneficial = Concat(ben)
           /\ all_improvement = Concat(imp)
           /\ Len(all_improvement) = TotalLen(imp)

\* Two files are processed whose series for one label differ, and whose
\* comment sequences differ too.
C3_Witness ==
  /\ pc = "aggregate"
  /\ Len(course_summaries) = 2
  /\ Get(course_summaries[1].ratings, "Outcomes Addressed") = <<5, 4>>
  /\ Get(course_summaries[2].ratings, "Outcomes Addressed") = <<4>>
  /\ all_ratings["Outcomes Addressed"] = <<5, 4, 4>>

\* C5: the ranked list holds exactly one entry for each label whose aggregate
\* series is non-empty, the entry's count is the length of that series and its
\* mean the mean of it, and no entry's mean is below the next entry's.
C5_RankedByMeanDescending ==
  Ranked =>
    LET withData == {label \in Labels : Get(all_ratings, label) # <<>>}
        n == Len(sorted_ratings)
    IN  /\ {sorted_ratings[i][3] : i \in 1..n} = withData
        /\ n = Cardinality(withData)
        /\ \A i \in 1..n :
             /\ sorted_ratings[i][4] = Len(all_ratings[sorted_ratings[i][3]])
             /\ RatEq(sorted_ratings[i][1],
                      <<Sum(all_ratings[sorted_ratings[i][3]]), sorted_ratings[i][4]>>)
        /\ \A i \in 1..(n - 1) : ~RatLess(sorted_ratings[i][1], sorted_ratings[i + 1][1])

\* All seven labels are ranked, from two files, the first mean above the last.
C5_Witness ==
  /\ pc = "feedback"
  /\ Len(sorted_ratings) = 7
  /\ Len(processed) = 2
  /\ RatLess(sorted_ratings[7][1], sorted_ratings[1][1])
  /\ \E i \in 1..7 : sorted_ratings[i][4] > 1

\* The labels of the lines of one kind.
LabelsOf(kind) == {LinesOf(kind)[i].label : i \in 1..Len(LinesOf(kind))}

\* The means of the ranked list are pairwise different.
DistinctMeans ==
  \A i \in 1..Len(sorted_ratings) : \A j \in 1..Len(sorted_ratings) :
     i # j => ~RatEq(sorted_ratings[i][1], sorted_ratings[j][1])

\* C6: when at least 6 labels have aggregate data and their means are pairwise
\* different, the three labels printed as top rated and the three printed as
\* areas for growth have no label in common.
C6_TopAndBottomDisjoint ==
  (Ranked /\ Len(sorted_ratings) >= 6 /\ DistinctMeans) =>
    /\ Len(LinesOf("top")) = 3
    /\ Len(LinesOf("growth")) = 3
    /\ LabelsOf("top") \cap LabelsOf("growth") = {}

\* Six labels with pairwise different means are ranked and both slices printed.
C6_Witness ==
  /\ pc = "feedback"
  /\ Len(sorted_ratings) = 6
  /\ DistinctMeans
  /\ Cardinality(LabelsOf("top")) = 3
  /\ Cardinality(LabelsOf("growth")) = 3

\* The series main computes statistics of: those of the file last read and
\* the aggregate ones.
SeriesInHand ==
  {effectiveness, all_effectiveness}
    \cup {Get(ratings, label) : label \in Labels}
    \cup {Get(all_ratings, label) : label \in Labels}

\* The kinds of the lines that print a mean and a standard deviation.
StatKinds ==
  {"effectiveness", "question", "agg_effectiveness", "agg_question", "top", "growth",
   "latex_top"}

\* The number of labels a dict of series holds data for.
LabelsWithData(d) == Cardinality({label \in Labels : Get(d, label) # <<>>})

\* C7: calculate_stats returns (None, None) exactly for the empty series and
\* the standard deviation 0 for a series of one element; no line that main
\* prints carries None; a file's effectiveness line and its question lines
\* are printed exactly for its non-empty series, and so are the aggregate
\* ones.
C7_NoLineFromSentinel ==
  LET n == Len(course_summaries)
  IN  /\ \A series \in SeriesInHand :
           /\ calculate_stats(series) = <<None, None>> <=> series = <<>>
           /\ series # <<>> =>
                calculate_stats(series)[1] # None /\ calculate_stats(series)[2] # None
           /\ Len(series) = 1 => calculate_stats(series)[2][1] = 0
      /\ \A i \in 1..Len(out) :
           out[i].kind \in StatKinds => out[i].mean # None /\ out[i].std # None
      /\ Len(LinesOf("effectiveness")) =
           Cardinality({i \in 1..n : course_summaries[i].effectiveness # <<>>})
      /\ Len(LinesOf("question")) =
           TotalLen([i \in 1..n |->
                       [k \in 1..LabelsWithData(course_summaries[i].ratings) |-> k]])
      /\ Ranked =>
           /\ Len(LinesOf("agg_effectiveness")) = (IF all_effectiveness # <<>> THEN 1 ELSE 0)
           /\ Len(LinesOf("agg_question")) = LabelsWithData(all_ratings)

\* main has ended after a file with no effectiveness answer and no question
\* answer and a file with one effectiveness answer: one line for the second
\* file, none for the first.
C7_Witness ==
  /\ pc = "done"
  /\ Len(course_summaries) = 2
  /\ course_summaries[1].effectiveness = <<>>
  /\ course_summaries[1].ratings = <<>>
  /\ course_summaries[1].n_responses > 0
  /\ Len(course_summaries[2].effectiveness) = 1
  /\ Len(LinesOf("effectiveness")) = 1
  /\ Len(LinesOf("agg_effectiveness")) = 1
  /\ LinesOf("agg_effectiveness")[1].std[1] = 0

\* Every character of f from i to j is one of cs, and there is at least one.
RunOf(f, i, j, cs) == i <= j /\ \A k \in i..j : CharAt(f, k) \in cs

\* f contains <Spring|Fall|Summer> <4-digit year> ... CMSI <number> <section digits>
\* on one line: a semester word at s, the year at y, CMSI at c, the number
\* from a to b, the section at d.
HasPattern(f) ==
  \E s \in 1..Len(f) : \E word \in {"Spring", "Fall", "Summer"} :
    /\ s + Len(word) - 1 <= Len(f)
    /\ SubSeq(f, s, s + Len(word) - 1) = word
    /\ \E y \in (s + Len(word) + 1)..(Len(f) - 3) :
         /\ RunOf(f, s + Len(word), y - 1, WhiteSpace)
         /\ RunOf(f, y, y + 3, Digits)
         /\ \E c \in (y + 4)..(Len(f) - 3) :
              /\ SubSeq(f, c, c + 3) = "CMSI"
              /\ \A k \in (y + 4)..(c - 1) : CharAt(f, k) # "\n"
              /\ \E a \in (c + 5)..Len(f) :
                   /\ RunOf(f, c + 4, a - 1, WhiteSpace)
                   /\ \E b \in a..Len(f) :
                        /\ RunOf(f, a, b, Digits)
                        /\ \E d \in (b + 2)..Len(f) :
                             /\ RunOf(f, b + 1, d - 1, WhiteSpace)
                             /\ CharAt(f, d) \in Digits

\* The names of FileNames that contain the pattern.
WellFormed == {f \in FileNames : HasPattern(f)}

\* What parse_course_info returns for each name of FileNames.
CourseInfo == Table([f \in FileNames |-> parse_course_info(f)])

\* C8: parse_course_info gives a triple for every name, and the triple
\* ("Unknown", "Unknown", "00") for a name without the pattern; main records a
\* file so named under that triple with what it extracted from it, and once
\* past the loop it has processed every file glob found, those after it too.
C8_MalformedNameDoesNotAbort ==
  /\ \A f \in directory :
       /\ Len(CourseInfo[f]) = 3
       /\ f \notin WellFormed => CourseInfo[f] = <<"Unknown", "Unknown", "00">>
  /\ \A i \in 1..Len(processed) :
       processed[i] \notin WellFormed =>
         /\ i <= Len(course_summaries)
         /\ course_summaries[i].semester = "Unknown"
         /\ course_summaries[i].course = "Unknown"
         /\ course_summaries[i].section = "00"
         /\ LinesOf("course")[i] =
              [kind |-> "course", course |-> "Unknown", section |-> "00",
               semester |-> "Unknown"]
         /\ (i = Len(processed) /\ pc = "loop") =>
              /\ course_summaries[i].n_responses = Len(responses)
              /\ course_summaries[i].improvement = improvement
              /\ course_summaries[i].ratings = ratings
  /\ LoopDone =>
       /\ Len(processed) = Cardinality(eval_files)
       /\ {processed[i] : i \in 1..Len(processed)} = eval_files
       /\ Len(course_summaries) = Cardinality(eval_files)

\* main has ended; the first file it processed has no semester in its name
\* and gave improvement comments, the file after it was processed under its
\* own course, and the comments of both are in the aggregate.
C8_Witness ==
  /\ pc = "done"
  /\ Len(processed) = 2
  /\ processed[1] \notin WellFormed
  /\ course_summaries[1].course = "Unknown"
  /\ Len(course_summaries[1].improvement) > 0
  /\ processed[2] \in WellFormed
  /\ course_summaries[2].semester = "Fall 2025"
  /\ course_summaries[2].course = "CMSI 186"
  /\ course_summaries[2].section = "02"
  /\ Len(course_summaries[2].improvement) > 0
  /\ Len(all_improvement) =
       Len(course_summaries[1].improvement) + Len(course_summaries[2].improvement)

\* The improvement lines main printed.
ImprovementLines == LinesOf("improvement")

\* The first SampleSize entries of the improvement sequence.
Sampled == 1..(IF Len(all_improvement) < SampleSize THEN Len(all_improvement) ELSE SampleSize)

\* main is past the improvement section.
SamplePrinted == pc \in {"latex", "done"} /\ eval_files # {}

\* C10 (as the specification states it): every one of the first K = 5 entries
\* of the improvement sequence is printed, none is dropped.
C10_EveryOneOfFirstKPrinted ==
  SamplePrinted =>
    /\ Len(ImprovementLines) = Cardinality(Sampled)
    /\ \A i \in Sampled : \E p \in 1..Len(ImprovementLines) : ImprovementLines[p].i = i

\* C10 (amended): of the first K = 5 entries of the improvement sequence,
\* exactly those longer than 10 characters are printed, in order and under
\* their position among the K, each whole when it has at most 300 characters
\* and cut to its first 300 followed by "..." otherwise; no keyword or
\* minimum-length-50 filter is applied and nothing else is printed.
C10_FirstKLongerThanTenPrinted ==
  SamplePrinted =>
    /\ {ImprovementLines[p].i : p \in 1..Len(ImprovementLines)} =
         {i \in Sampled : Len(all_improvement[i]) > 10}
    /\ \A p \in 1..Len(ImprovementLines) : \A r \in 1..Len(ImprovementLines) :
         p < r => ImprovementLines[p].i < ImprovementLines[r].i
    /\ \A p \in 1..Len(ImprovementLines) :
         LET comment == all_improvement[ImprovementLines[p].i]
         IN  ImprovementLines[p].text =
               (IF Len(comment) <= 300 THEN comment
                ELSE SubSeq(comment, 1, 300) \o "...")

\* More than K suggestions were gathered; among the first K one has at most
\* 10 characters, one has no keyword and fewer than 50 characters and is
\* printed, and one has more than 300 and is printed cut.
C10_Witness ==
  /\ pc = "latex"
  /\ Len(all_improvement) > SampleSize
  /\ \E i \in Sampled : Len(all_improvement[i]) <= 10
  /\ \E p \in 1..Len(ImprovementLines) :
       /\ Len(ImprovementLines[p].text) < DefaultMinLength
       /\ positive_count(Lower(ImprovementLines[p].text)) = 0
  /\ \E p \in 1..Len(ImprovementLines) : Len(ImprovementLines[p].text) = 303
  /\ Len(ImprovementLines) < SampleSize

\* kw occurs in comment when the case of the letters is ignored.
OccursIgnoringCase(kw, comment) ==
  \E i \in 1..(Len(comment) - Len(kw) + 1) :
     Lower(SubSeq(comment, i, i + Len(kw) - 1)) = Lower(kw)

\* The distinct positive keywords that occur in each comment of CommentPool.
KeywordsIn ==
  Table([comment \in CommentPool |->
           {kw \in {positive_keywords[k] : k \in 1..Len(positive_keywords)} :
              OccursIgnoringCase(kw, comment)}])

\* C4: each call of filter_good_feedback returns the comments of its argument
\* that have at least min_length characters and in which at least 2 distinct
\* positive keywords occur, case ignored, each as often and in the order the
\* argument holds them.
C4_RetainedIffLongAndTwoKeywords ==
  \A n \in 1..Len(calls) :
    LET retained(comment) == /\ Len(comment) >= calls[n].min_length
                             /\ Cardinality(KeywordsIn[comment]) >= 2
    IN  calls[n].good = SelectSeq(comments, retained)

\* A comment of 49 characters and one of 50, both with five keywords: the call
\* with min_length 50 kept the second only, the call with 49 both.
C4_Witness ==
  /\ Len(comments) = 2
  /\ Len(comments[1]) = DefaultMinLength - 1
  /\ Len(comments[2]) = DefaultMinLength
  /\ Cardinality(KeywordsIn[comments[1]]) = 5
  /\ Len(calls) = 2
  /\ calls[1].min_length = DefaultMinLength
  /\ calls[1].good = <<comments[2]>>
  /\ calls[2].min_length = DefaultMinLength - 1
  /\ calls[2].good = comments

\* C9: of two calls on the same comments, the one with the lower or equal
\* min_length retains every comment the other retains, and at least as many.
C9_MonotonicInThreshold ==
  \A m1 \in 1..Len(calls) : \A m2 \in 1..Len(calls) :
    calls[m1].min_length <= calls[m2].min_length =>
      /\ Len(calls[m2].good) <= Len(calls[m1].good)
      /\ \A k \in 1..Len(calls[m2].good) :
           \E l \in 1..Len(calls[m1].good) : calls[m1].good[l] = calls[m2].good[k]

\* Two calls on two comments with keywords: the one with the higher
\* min_length retained one comment, the other both.
C9_Witness ==
  /\ Len(calls) = 2
  /\ calls[1].min_length < calls[2].min_length
  /\ Len(calls[1].good) = 2
  /\ Len(calls[2].good) = 1
  /\ calls[1].good[1] # calls[1].good[2]

====
